---- MODULE Spec2Model ----
(***************************************************************************)
(* A model of itkconfig.LoadConfig (config.go): a line-oriented key=value  *)
(* configuration parser that binds values to the fields of a struct by     *)
(* reflection.  Text is modelled as sequences of one-character strings.    *)
(***************************************************************************)
EXTENDS Integers, Sequences, FiniteSets, TLC

VARIABLES
    destKind,    \* what the config argument is (see DestKinds)
    fileExists,  \* whether os.Open(filename) can succeed
    file,        \* the lines of the file, in order (what fh.Scan/fh.Text deliver)
    defaults,    \* the destination struct as supplied by the caller
    config,      \* the destination struct, field name -> value
    pc,          \* start | scan | done
    lineNr,      \* number of lines fh.Scan has delivered so far
    opened,      \* os.Open has been called
    result,      \* none | nil | error | panic : how LoadConfig ended
    errKind,     \* which error was returned ("" when none)
    ioFails,     \* the reader stops with an error after the lines of file, not at end of input
    handle       \* the *os.File f: none | open | closed

vars == <<destKind, fileExists, file, defaults, config, pc, lineNr, opened, result, errKind,
          ioFails, handle>>

----------------------------------------------------------------------------
(* Bounds of the model *)

\* longest line enumerated exhaustively by InitLine
MaxLineLen == 6
\* most lines in a file drawn by Init
MaxLines == 3
MaxValueLen == 4

----------------------------------------------------------------------------
(* Characters *)

QUOTE == "\""
HASH == "#"
EQUALS == "="
SPACE == " "
BACKSLASH == "\\"

\* unicode.IsSpace, over the characters of the model
IsSpace(c) == c = SPACE

----------------------------------------------------------------------------
(* The string functions LoadConfig uses *)

\* strings.Index(s, c) for a one-character c: 0-based index of the first c, or -1
Index(s, c) ==
    IF \E k \in 1..Len(s) : s[k] = c
    THEN (CHOOSE k \in 1..Len(s) : s[k] = c /\ \A j \in 1..(k-1) : s[j] /= c) - 1
    ELSE -1

\* s[:n] and s[n:] with Go's 0-based n
Prefix(s, n) == SubSeq(s, 1, n)
Suffix(s, n) == SubSeq(s, n + 1, Len(s))

RECURSIVE Split(_, _)
\* strings.Split(s, c) for a one-character c: always at least one part
Split(s, c) ==
    LET k == Index(s, c)
    IN  IF k = -1 THEN <<s>>
        ELSE <<Prefix(s, k)>> \o Split(Suffix(s, k + 1), c)

\* strings.SplitN(s, c, 2): at most two parts, split at the first c
SplitN2(s, c) ==
    LET k == Index(s, c)
    IN  IF k = -1 THEN <<s>>
        ELSE <<Prefix(s, k), Suffix(s, k + 1)>>

RECURSIVE TrimLeftSpace(_)
\* strings.TrimLeftFunc(s, unicode.IsSpace)
TrimLeftSpace(s) ==
    IF s /= <<>> /\ IsSpace(Head(s)) THEN TrimLeftSpace(Tail(s)) ELSE s

RECURSIVE TrimRightSpace(_)
\* strings.TrimRightFunc(s, unicode.IsSpace)
TrimRightSpace(s) ==
    IF s /= <<>> /\ IsSpace(s[Len(s)]) THEN TrimRightSpace(Prefix(s, Len(s) - 1)) ELSE s

\* strings.TrimSpace
TrimSpace(s) == TrimRightSpace(TrimLeftSpace(s))

----------------------------------------------------------------------------
(* Splitting one line into key and value: the inner loop of LoadConfig *)

\* what one pass of the loop body leaves: how the loop goes on, and key and value
PartResult(next, err, key, value) ==
    [next |-> next, err |-> err, key |-> key, value |-> value]

\* OutsideQuotes without the test of the index: every part is taken as unquoted
OutsideQuotesAlways(i) == TRUE

\* `if i%2 == 0`: the parts with an even index lie outside double quotes
OutsideQuotes(i) == i % 2 = 0

\* CommentIndex with strings.LastIndex in the place of strings.Index
CommentIndexLast(part) ==
    IF \E k \in 1..Len(part) : part[k] = HASH
    THEN (CHOOSE k \in 1..Len(part) : part[k] = HASH /\ \A j \in (k+1)..Len(part) : part[j] /= HASH) - 1
    ELSE -1

\* commentIndex := strings.Index(part, "#")
CommentIndex(part) == Index(part, HASH)

\* KeyCheck as in the loader this one grew from: a first part without = only
\* ends the loop, and an empty key is not looked at
KeyCheckBreakOnly(keyVal, key, isLast, commentIndex) ==
    IF Len(keyVal) < 2 THEN "commentOnly" ELSE ""

\* KeyCheck without the case of a line that is only comments: a first part
\* without = is always an error
KeyCheckNoCommentOnly(keyVal, key, isLast, commentIndex) ==
    IF Len(keyVal) < 2
    THEN IF ~isLast /\ commentIndex = -1 THEN "quoteInKey" ELSE "noEquals"
    ELSE IF key = <<>> THEN "emptyKey"
    ELSE ""

\* the checks on the first part: the error they return, "commentOnly" for the
\* break on a line that is only comments, "" when the part holds key and =
KeyCheck(keyVal, key, isLast, commentIndex) ==
    IF Len(keyVal) < 2
    THEN IF ~isLast /\ commentIndex = -1 THEN "quoteInKey"
         ELSE IF key /= <<>> THEN "noEquals"
         ELSE "commentOnly"
    ELSE IF key = <<>> THEN "emptyKey"
    ELSE ""

\* the body of `for i, part := range lineParts`, for the 0-based index i
PartStep(lineParts, i, key, value) ==
    LET n    == Len(lineParts)
        part == lineParts[i + 1]
    IN  IF OutsideQuotes(i)
        THEN LET commentIndex == CommentIndex(part)
                 \* part = part[:commentIndex]
                 noComment == IF commentIndex /= -1 THEN Prefix(part, commentIndex) ELSE part
                 keyVal == SplitN2(noComment, EQUALS)
                 newKey == IF i = 0 THEN TrimSpace(keyVal[1]) ELSE key
                 check  == IF i = 0 THEN KeyCheck(keyVal, newKey, i = n - 1, commentIndex) ELSE ""
             IN  IF check = "commentOnly"
                 THEN PartResult("break", "", newKey, value)
                 ELSE IF check /= ""
                 THEN PartResult("return", check, newKey, value)
                 ELSE LET leftTrimmed == IF i = 0 THEN TrimLeftSpace(keyVal[2]) ELSE noComment
                          trimmed == IF i = n - 1 \/ commentIndex /= -1
                                     THEN TrimRightSpace(leftTrimmed)
                                     ELSE leftTrimmed
                      IN  IF commentIndex /= -1
                          THEN PartResult("break", "", newKey, value \o trimmed)
                          ELSE PartResult("continue", "", newKey, value \o trimmed)
        ELSE PartResult("continue", "", key, value \o part)

RECURSIVE PartLoop(_, _, _, _)
\* the loop over lineParts from index i on
PartLoop(lineParts, i, key, value) ==
    IF i >= Len(lineParts)
    THEN PartResult("break", "", key, value)
    ELSE LET r == PartStep(lineParts, i, key, value)
         IN  IF r.next = "continue"
             THEN PartLoop(lineParts, i + 1, r.key, r.value)
             ELSE r

\* key, value and error kind ("" when none) of one line
ParseLine(line) == PartLoop(Split(line, QUOTE), 0, <<>>, <<>>)

----------------------------------------------------------------------------
(* strconv *)

Digits == {"0", "1", "2", "3", "4", "5", "6", "7", "8", "9"}

DigitVal(c) ==
    CASE c = "0" -> 0 [] c = "1" -> 1 [] c = "2" -> 2 [] c = "3" -> 3 [] c = "4" -> 4
      [] c = "5" -> 5 [] c = "6" -> 6 [] c = "7" -> 7 [] c = "8" -> 8 [] c = "9" -> 9

RECURSIVE Magnitude(_)
\* the base-10 number a sequence of digits denotes
Magnitude(ds) ==
    IF ds = <<>> THEN 0
    ELSE 10 * Magnitude(Prefix(ds, Len(ds) - 1)) + DigitVal(ds[Len(ds)])

AllDigits(s) == s /= <<>> /\ \A k \in 1..Len(s) : s[k] \in Digits

Conv(ok, v) == [ok |-> ok, v |-> v]

\* strconv.ParseUint(s, 10, bits)
ParseUint(s, bits) ==
    IF ~AllDigits(s) THEN Conv(FALSE, 0)
    ELSE IF Magnitude(s) > 2^bits - 1 THEN Conv(FALSE, 0)
    ELSE Conv(TRUE, Magnitude(s))

\* strconv.ParseInt(s, 10, bits)
ParseInt(s, bits) ==
    LET signed == s /= <<>> /\ s[1] \in {"+", "-"}
        neg    == s /= <<>> /\ s[1] = "-"
        body   == IF signed THEN Tail(s) ELSE s
    IN  IF ~AllDigits(body) THEN Conv(FALSE, 0)
        ELSE IF ~neg /\ Magnitude(body) > 2^(bits - 1) - 1 THEN Conv(FALSE, 0)
        ELSE IF neg /\ Magnitude(body) > 2^(bits - 1) THEN Conv(FALSE, 0)
        ELSE Conv(TRUE, IF neg THEN 0 - Magnitude(body) ELSE Magnitude(body))

\* strconv.ParseBool
ParseBool(s) ==
    IF s \in {<<"1">>, <<"t">>, <<"T">>, <<"t","r","u","e">>, <<"T","R","U","E">>, <<"T","r","u","e">>}
    THEN Conv(TRUE, TRUE)
    ELSE IF s \in {<<"0">>, <<"f">>, <<"F">>, <<"f","a","l","s","e">>, <<"F","A","L","S","E">>,
                   <<"F","a","l","s","e">>}
    THEN Conv(TRUE, FALSE)
    ELSE Conv(FALSE, FALSE)

----------------------------------------------------------------------------
(* Binding a value to a field *)

Parsed(err, v) == [err |-> err, v |-> v]

\* reflect.ValueOf(i).Convert(fieldType) for an int64 i and a signed type of
\* the given size: the low bits of i, as a signed number
ConvertInt(i, bits) ==
    LET low == i % 2^bits
    IN  IF low >= 2^(bits - 1) THEN low - 2^bits ELSE low

\* reflect.ValueOf(i).Convert(fieldType) for a uint64 i and an unsigned type
ConvertUint(i, bits) == i % 2^bits

\* parseField that has strconv check the range of a type one byte wider than
\* the field, so that Convert cuts the number down to the field's size
parseFieldWide(value, fieldType) ==
    CASE fieldType.kind = "string" -> Parsed("", value)
      [] fieldType.kind = "bool" ->
            LET c == ParseBool(value)
            IN  IF c.ok THEN Parsed("", c.v) ELSE Parsed("invalidBool", c.v)
      [] fieldType.kind = "int" ->
            LET c == ParseInt(value, fieldType.bits + 8)
            IN  IF c.ok THEN Parsed("", ConvertInt(c.v, fieldType.bits))
                ELSE Parsed("invalidInt", c.v)
      [] fieldType.kind = "uint" ->
            LET c == ParseUint(value, fieldType.bits + 8)
            IN  IF c.ok THEN Parsed("", ConvertUint(c.v, fieldType.bits))
                ELSE Parsed("invalidUint", c.v)
      [] OTHER -> Parsed("unsupported", 0)

\* parseField: the value converted to the field's kind, or the error.
\* A type is [kind, bits]; the float kinds are not among the model's structs.
parseField(value, fieldType) ==
    CASE fieldType.kind = "string" -> Parsed("", value)
      [] fieldType.kind = "bool" ->
            LET c == ParseBool(value)
            IN  IF c.ok THEN Parsed("", c.v) ELSE Parsed("invalidBool", c.v)
      [] fieldType.kind = "int" ->
            LET c == ParseInt(value, fieldType.bits)
            IN  IF c.ok THEN Parsed("", ConvertInt(c.v, fieldType.bits))
                ELSE Parsed("invalidInt", c.v)
      [] fieldType.kind = "uint" ->
            LET c == ParseUint(value, fieldType.bits)
            IN  IF c.ok THEN Parsed("", ConvertUint(c.v, fieldType.bits))
                ELSE Parsed("invalidUint", c.v)
      [] OTHER -> Parsed("unsupported", 0)

----------------------------------------------------------------------------
(* The destination struct of the model:                                    *)
(*     type Config struct {                                                *)
(*         F string; L []string; N int8; U uint8; W int16; K []int8;      *)
(*         u string }                                                      *)

Type(kind, bits) == [kind |-> kind, bits |-> bits]

\* the declared type of each field; for a slice, elem is the element type
FieldType ==
    [F |-> [kind |-> "string", bits |-> 0,  elem |-> Type("", 0)],
     L |-> [kind |-> "slice",  bits |-> 0,  elem |-> Type("string", 0)],
     N |-> [kind |-> "int",    bits |-> 8,  elem |-> Type("", 0)],
     U |-> [kind |-> "uint",   bits |-> 8,  elem |-> Type("", 0)],
     W |-> [kind |-> "int",    bits |-> 16, elem |-> Type("", 0)],
     K |-> [kind |-> "slice",  bits |-> 0,  elem |-> Type("int", 8)],
     u |-> [kind |-> "string", bits |-> 0,  elem |-> Type("", 0)]]

FieldNames == DOMAIN FieldType

\* a field can be set through reflection iff its name is exported
CanSet(f) == f /= "u"

\* a slice value: nil, or its elements
Slice(isNil, elems) == [isNil |-> isNil, elems |-> elems]

NoField == "<invalid>"

\* FieldByName with the names compared without regard to case
FieldByNameFold(key) ==
    IF \E f \in FieldNames : key = <<f>> \/ (f = "F" /\ key = <<"f">>)
    THEN CHOOSE f \in FieldNames : key = <<f>> \/ (f = "F" /\ key = <<"f">>)
    ELSE NoField

\* configReflect.FieldByName(key): the field named exactly key, or the zero Value
FieldByName(key) ==
    IF \E f \in FieldNames : key = <<f>>
    THEN CHOOSE f \in FieldNames : key = <<f>>
    ELSE NoField

----------------------------------------------------------------------------
(* One pass of `for fh.Scan()`: everything LoadConfig does with one line *)

\* how the pass ends (continue | error | panic), the error, and the struct after it
LineResult(next, err, cfg) == [next |-> next, err |-> err, config |-> cfg]

\* SetSlice without the IsNil test: a fresh slice is made for every line
SetSliceFresh(cfg, f, value) ==
    IF ~CanSet(f)
    THEN LineResult("panic", "", cfg)
    ELSE LET made == [cfg EXCEPT ![f] = Slice(FALSE, <<>>)]
             v == parseField(value, FieldType[f].elem)
         IN  IF v.err /= "" THEN LineResult("error", v.err, made)
             ELSE LineResult("continue", "",
                             [made EXCEPT ![f] = Slice(FALSE, Append(made[f].elems, v.v))])

\* case reflect.Slice of the switch on field.Kind()
SetSlice(cfg, f, value) ==
    IF cfg[f].isNil /\ ~CanSet(f)
    THEN LineResult("panic", "", cfg)
    ELSE LET made == IF cfg[f].isNil
                     THEN [cfg EXCEPT ![f] = Slice(FALSE, <<>>)]
                     ELSE cfg
             v == parseField(value, FieldType[f].elem)
         IN  IF v.err /= "" THEN LineResult("error", v.err, made)
             ELSE IF ~CanSet(f) THEN LineResult("panic", "", made)
             ELSE LineResult("continue", "",
                             [made EXCEPT ![f] = Slice(FALSE, Append(made[f].elems, v.v))])

\* the default case of the switch on field.Kind()
SetScalar(cfg, f, value) ==
    LET v == parseField(value, FieldType[f])
    IN  IF v.err /= "" THEN LineResult("error", v.err, cfg)
        ELSE IF ~CanSet(f) THEN LineResult("panic", "", cfg)
        ELSE LineResult("continue", "", [cfg EXCEPT ![f] = v.v])

\* the body of the scan loop for one line
LineStep(cfg, line) ==
    LET p == ParseLine(line)
    IN  IF p.next = "return" THEN LineResult("error", p.err, cfg)
        ELSE IF p.key = <<>> THEN LineResult("continue", "", cfg)
        ELSE IF p.value = <<>> THEN LineResult("error", "emptyValue", cfg)
        ELSE LET f == FieldByName(p.key)
             IN  IF f = NoField THEN LineResult("error", "invalidKey", cfg)
                 ELSE IF FieldType[f].kind = "slice" THEN SetSlice(cfg, f, p.value)
                 ELSE SetScalar(cfg, f, p.value)

----------------------------------------------------------------------------
(* LoadConfig as a state machine *)

\* a pointer to a struct, a struct value, a pointer to an int, a nil pointer
\* to a struct, and the nil interface
DestKinds == {"ptrStruct", "struct", "ptrInt", "nilPtrStruct", "nil"}

\* Start with os.Open moved before the checks on the config argument
StartOpenFirst ==
    /\ pc = "start"
    /\ opened' = TRUE
    /\ handle' = IF fileExists THEN "open" ELSE handle
    /\ IF ~fileExists
       THEN /\ pc' = "done" /\ result' = "error" /\ errKind' = "open"
       ELSE IF destKind \in {"struct", "nil"}
       THEN /\ pc' = "done" /\ result' = "error" /\ errKind' = "notPointer"
       ELSE IF destKind /= "ptrStruct"
       THEN /\ pc' = "done" /\ result' = "error" /\ errKind' = "notStruct"
       ELSE /\ pc' = "scan" /\ result' = result /\ errKind' = errKind
    /\ UNCHANGED <<destKind, fileExists, file, defaults, config, lineNr, ioFails>>

\* Start that sets the struct to its zero value once the file is open, so that
\* the values the caller supplied are lost
StartZeroed ==
    /\ pc = "start"
    /\ IF destKind \in {"struct", "nil"}
       THEN /\ pc' = "done" /\ result' = "error" /\ errKind' = "notPointer"
            /\ opened' = opened /\ handle' = handle /\ config' = config
       ELSE IF destKind /= "ptrStruct"
       THEN /\ pc' = "done" /\ result' = "error" /\ errKind' = "notStruct"
            /\ opened' = opened /\ handle' = handle /\ config' = config
       ELSE IF ~fileExists
       THEN /\ pc' = "done" /\ result' = "error" /\ errKind' = "open"
            /\ opened' = TRUE /\ handle' = handle /\ config' = config
       ELSE /\ pc' = "scan" /\ result' = result /\ errKind' = errKind
            /\ opened' = TRUE /\ handle' = "open"
            /\ config' = [F |-> <<>>, L |-> Slice(TRUE, <<>>), N |-> 0, U |-> 0, W |-> 0,
                          K |-> Slice(TRUE, <<>>), u |-> <<>>]
    /\ UNCHANGED <<destKind, fileExists, file, defaults, lineNr, ioFails>>

\* the checks on the config argument, then os.Open
Start ==
    /\ pc = "start"
    /\ IF destKind \in {"struct", "nil"}
       THEN /\ pc' = "done" /\ result' = "error" /\ errKind' = "notPointer"
            /\ opened' = opened /\ handle' = handle
       ELSE IF destKind /= "ptrStruct"
       THEN /\ pc' = "done" /\ result' = "error" /\ errKind' = "notStruct"
            /\ opened' = opened /\ handle' = handle
       ELSE IF ~fileExists
       THEN /\ pc' = "done" /\ result' = "error" /\ errKind' = "open"
            /\ opened' = TRUE /\ handle' = handle
       ELSE /\ pc' = "scan" /\ result' = result /\ errKind' = errKind
            /\ opened' = TRUE /\ handle' = "open"
    /\ UNCHANGED <<destKind, fileExists, file, defaults, config, lineNr, ioFails>>

\* fh.Scan() delivers the next line and the loop body runs on it
ScanLine ==
    /\ pc = "scan"
    /\ lineNr < Len(file)
    /\ LET r == LineStep(config, file[lineNr + 1])
       IN  /\ config' = r.config
           /\ lineNr' = lineNr + 1
           /\ IF r.next = "continue"
              THEN UNCHANGED <<pc, result, errKind>>
              ELSE /\ pc' = "done" /\ result' = r.next /\ errKind' = r.err
    /\ UNCHANGED <<destKind, fileExists, file, defaults, opened, ioFails, handle>>

\* fh.Scan() returns false, at the end of the input or on a read error (fh.Err()
\* is not looked at), and LoadConfig returns nil; f is not closed
Return ==
    /\ pc = "scan"
    /\ lineNr = Len(file)
    /\ pc' = "done" /\ result' = "nil"
    /\ UNCHANGED <<destKind, fileExists, file, defaults, config, lineNr, opened, errKind,
                   ioFails, handle>>

Next == Start \/ ScanLine \/ Return

\* what the message of each error is formatted from: the arguments of its
\* errors.New, fmt.Errorf or os.Open
ErrorArgs(kind) ==
    CASE kind = "notPointer" -> {}
      [] kind = "notStruct"  -> {}
      [] kind = "open"       -> {"filename", "cause"}
      [] kind = "quoteInKey" -> {"line"}
      [] kind = "noEquals"   -> {"line"}
      [] kind = "emptyKey"   -> {"line"}
      [] kind = "emptyValue" -> {"key"}
      [] kind = "invalidKey" -> {"key"}
      [] kind \in {"invalidBool", "invalidInt", "invalidUint"} -> {"value", "key", "cause"}
      [] kind = "unsupported" -> {"kind"}
      [] OTHER -> {}

----------------------------------------------------------------------------
(* Inputs *)

SeqsUpTo(S, n) == UNION {[1..k -> S] : k \in 0..n}

\* the lines of the multi-line files
FileLines ==
    { <<"F", "=", "b">>, <<"F", "=", "c">>,
      <<"L", "=", "b">>, <<"L", " ", "=", " ", "c">>,
      <<"K", "=", "1">>, <<"K", "=", "x">>,
      <<"u", "=", "b">>, <<"f", "=", "b">>,
      <<>>, <<"#", "F", "=", "b">>, <<"F">> }

\* the structs the caller passes: the list L nil, empty or with a default element
DefaultConfigs ==
    { [F |-> <<"d">>, L |-> l, N |-> 0, U |-> 0, W |-> 0, K |-> Slice(TRUE, <<>>),
       u |-> <<"p">>] :
        l \in {Slice(TRUE, <<>>), Slice(FALSE, <<>>), Slice(FALSE, <<<<"d">>>>)} }

InitWith(d, e, f, c) ==
    /\ destKind = d /\ fileExists = e /\ file = f /\ defaults = c /\ config = c
    /\ pc = "start" /\ lineNr = 0 /\ opened = FALSE /\ result = "none" /\ errKind = ""
    /\ handle = "none"

Init ==
    /\ \E d \in DestKinds, e \in BOOLEAN, f \in SeqsUpTo(FileLines, MaxLines), c \in DefaultConfigs :
            InitWith(d, e, f, c)
    /\ ioFails \in BOOLEAN

Spec == Init /\ [][Next]_vars

\* the characters of the exhaustively enumerated lines
Alphabet == {"F", EQUALS, QUOTE, HASH, SPACE, BACKSLASH}

\* the lines of the documentation and the tests, longer than MaxLineLen
ExampleLines ==
    { <<"F", " ", "=", " ", "\"", "#", "F", "\"", " ", "#", " ", "F">>,
      <<"F", " ", "=", " ", "F", "F", " ", "#", " ", "F">>,
      <<"F", " ", "=", " ", "\"", "F", "\\", "\"", "F", "\"">>,
      <<"F", " ", "=", " ", "F", "\"", "F">>,
      <<"F", " ", "=", " ", "\"", "F", "\"", "F", "\"">>,
      <<"F", " ", "=", " ", "\"", " ", "F", " ", "\"">>,
      <<"F", " ", "=", " ", "\"", "\"">>,
      <<"F", " ", "=", " ", "#", " ", "F">> }

\* one-line files over every line of at most MaxLineLen characters
InitLine ==
    /\ \E l \in SeqsUpTo(Alphabet, MaxLineLen) \cup ExampleLines :
            InitWith("ptrStruct", TRUE, <<l>>,
                     [F |-> <<"d">>, L |-> Slice(TRUE, <<>>), N |-> 0, U |-> 0, W |-> 0,
                      K |-> Slice(TRUE, <<>>), u |-> <<"p">>])
    /\ ioFails = FALSE

SpecLine == InitLine /\ [][Next]_vars

\* the fields of an integer kind, and the list of integers
IntFields == {"N", "U", "W", "K"}

\* the characters of the exhaustively enumerated values
ValueAlphabet == {"0", "1", "2", "5", "6", "7", "8", "9", "-"}

\* values of the tests, values that are no base-10 integer, and the values
\* around the ends of the 16-bit ranges
ExampleValues ==
    { <<"-", "1">>, <<"1">>, <<"+", "5">>, <<"+", "1", "2", "8">>, <<"x">>, <<"1", "x">>,
      <<"1", ".", "5">>, <<"0", "x", "1", "0">>, <<"1", "_", "0">>, <<"1", "e", "2">>,
      <<"3", "2", "7", "6", "7">>, <<"3", "2", "7", "6", "8">>,
      <<"-", "3", "2", "7", "6", "8">>, <<"-", "3", "2", "7", "6", "9">>,
      <<"6", "5", "5", "3", "5">>, <<"6", "5", "5", "3", "6">>,
      <<"0", "0", "1", "2", "7">>, <<"-", "6", "5", "5", "3", "6">> }

\* one-line files `field=value` for every integer field and every value of at
\* most MaxValueLen characters
InitInt ==
    /\ \E f \in IntFields, v \in SeqsUpTo(ValueAlphabet, MaxValueLen) \cup ExampleValues :
            InitWith("ptrStruct", TRUE, << <<f, EQUALS>> \o v >>,
                     [F |-> <<"d">>, L |-> Slice(TRUE, <<>>), N |-> 3, U |-> 3, W |-> 3,
                      K |-> Slice(FALSE, <<3>>), u |-> <<"p">>])
    /\ ioFails = FALSE

SpecInt == InitInt /\ [][Next]_vars

----------------------------------------------------------------------------
(* Reading a file and a line without the parser *)

\* LoadConfig ran on an existing file with a pointer to the struct
Loaded == pc = "done" /\ destKind = "ptrStruct" /\ fileExists

\* the line is blank or its first non-blank character is #
BlankOrComment(line) ==
    TrimLeftSpace(line) = <<>> \/ Head(TrimLeftSpace(line)) = HASH

HasEquals(line) == Index(line, EQUALS) /= -1

\* the text before the first = of the line, trimmed
RawKey(line) == TrimSpace(Prefix(line, Index(line, EQUALS)))

\* the text before the first = of the line
BeforeEquals(line) == Prefix(line, Index(line, EQUALS))

Contains(s, c) == \E k \in 1..Len(s) : s[k] = c

\* a line that LoadConfig accepts when it is the only line of the file
ValidAlone(line) == LineStep(defaults, line).next = "continue"

\* the elements LoadConfig has to append to the list field f for the lines of fl
RECURSIVE ListValues(_, _)
ListValues(fl, f) ==
    IF fl = <<>> THEN <<>>
    ELSE LET line == fl[Len(fl)]
             rest == ListValues(Prefix(fl, Len(fl) - 1), f)
         IN  IF ~BlankOrComment(line) /\ HasEquals(line) /\ RawKey(line) = <<f>>
             THEN Append(rest, parseField(ParseLine(line).value, FieldType[f].elem).v)
             ELSE rest

----------------------------------------------------------------------------
(* C1 *)

\* two lines of the file, each valid alone, give the same scalar field
DuplicateScalar ==
    \E i, j \in 1..Len(file) :
        /\ i < j
        /\ ValidAlone(file[i]) /\ ValidAlone(file[j])
        /\ HasEquals(file[i]) /\ HasEquals(file[j])
        /\ RawKey(file[i]) = RawKey(file[j])
        /\ \E f \in FieldNames : RawKey(file[i]) = <<f>> /\ FieldType[f].kind /= "slice"

\* C1: a file in which the same scalar key appears on two lines that are each
\* valid makes LoadConfig return an error, whether or not the values are equal
\* (stated as: LoadConfig does not return nil on such a file).
C1_DuplicateScalarKeyIsError ==
    (Loaded /\ DuplicateScalar) => result /= "nil"

----------------------------------------------------------------------------
(* C2 *)

----------------------------------------------------------------------------
(* C7 *)

\* C7: when config is not a pointer to a struct LoadConfig returns an error
\* without opening the file or reading a line, and no field changes.
C7_BadDestinationFailsBeforeOpen ==
    destKind /= "ptrStruct" =>
        /\ ~opened /\ lineNr = 0 /\ config = defaults
        /\ result \in {"none", "error"}
        /\ pc = "done" => (result = "error" /\ errKind \in {"notPointer", "notStruct"})

\* LoadConfig returned for a nil config and a file that does not exist
C7_Witness ==
    /\ pc = "done" /\ destKind = "nil" /\ ~fileExists /\ Len(file) > 0
    /\ result = "error" /\ ~opened

----------------------------------------------------------------------------
(* C8 *)

\* a line read so far gives the unexported field u a value
UnexportedKeyRead ==
    \E i \in 1..lineNr :
        /\ ~BlankOrComment(file[i]) /\ HasEquals(file[i])
        /\ RawKey(file[i]) = <<"u">>

\* C8: a line whose key names an unexported field makes LoadConfig return an
\* error (no panic, no nil), and the field keeps its value.
C8_UnexportedKeyIsError ==
    (Loaded /\ UnexportedKeyRead) => (result = "error" /\ config.u = defaults.u)

----------------------------------------------------------------------------
(* C9 *)

\* the line is a key=value line whose key is the name of no field
UnknownKey(line) ==
    /\ ~BlankOrComment(line) /\ HasEquals(line)
    /\ \A f \in FieldNames : RawKey(line) /= <<f>>

\* C9: a key=value line whose trimmed key is not exactly the name of a field
\* makes LoadConfig return an error at that line and changes no field.
C9_UnknownKeyIsError ==
    [][(pc = "scan" /\ lineNr < Len(file) /\ UnknownKey(file[lineNr + 1])) =>
          (pc' = "done" /\ result' = "error" /\ lineNr' = lineNr + 1 /\ config' = config)]_vars

\* the key f, which differs from the field F in case only, on the second line
C9_Witness ==
    /\ Loaded /\ result = "error" /\ errKind = "invalidKey"
    /\ lineNr = 2 /\ file[2] = <<"f", "=", "b">>
    /\ config /= defaults

----------------------------------------------------------------------------
(* What a line means, read off its characters *)

RemoveQuotes(s) == SelectSeq(s, LAMBDA c : c /= QUOTE)

CountQuotes(s) == Len(SelectSeq(s, LAMBDA c : c = QUOTE))

\* position p of the line lies inside a quoted span
Quoted(line, p) == CountQuotes(Prefix(line, p - 1)) % 2 = 1

\* the position of the first # outside quotes, or one past the end of the line
CommentStart(line) ==
    IF \E p \in 1..Len(line) : line[p] = HASH /\ ~Quoted(line, p)
    THEN CHOOSE p \in 1..Len(line) :
            /\ line[p] = HASH /\ ~Quoted(line, p)
            /\ \A q \in 1..(p - 1) : ~(line[q] = HASH /\ ~Quoted(line, q))
    ELSE Len(line) + 1

\* the line without its comment
Uncommented(line) == Prefix(line, CommentStart(line) - 1)

\* the line, comment aside, reads f = ...
KeyValueLineFor(line, f) ==
    /\ HasEquals(Uncommented(line))
    /\ RawKey(Uncommented(line)) = <<f>>

\* the text between the first = and the comment
RawValue(line) == Suffix(Uncommented(line), Index(Uncommented(line), EQUALS) + 1)

\* blanks outside quotes taken off both ends
TrimUnquoted(raw) ==
    LET l == TrimLeftSpace(raw)
    IN  IF CountQuotes(l) % 2 = 0 THEN TrimRightSpace(l) ELSE l

\* no backslash stands right before a double quote
NoEscapedQuote(line) ==
    \A k \in 1..(Len(line) - 1) : ~(line[k] = BACKSLASH /\ line[k + 1] = QUOTE)

\* the only line of the file
TheLine == file[1]

----------------------------------------------------------------------------
(* C3 *)

\* the text between the outer quotes of a line F = "x\"y", or <<>> for
\* a line of another form
EscapedInner(line) ==
    LET raw == TrimSpace(Suffix(line, Index(line, EQUALS) + 1))
    IN  IF /\ HasEquals(line) /\ RawKey(line) = <<"F">>
           /\ Len(raw) >= 4 /\ raw[1] = QUOTE /\ raw[Len(raw)] = QUOTE
        THEN SubSeq(raw, 2, Len(raw) - 1)
        ELSE <<>>

\* the line is F = "x\"y" with no quote and no backslash in x and y
EscapedQuoteForm(line) ==
    LET inner == EscapedInner(line)
    IN  /\ CountQuotes(inner) = 1
        /\ Len(SelectSeq(inner, LAMBDA c : c = BACKSLASH)) = 1
        /\ \E k \in 1..(Len(inner) - 1) : inner[k] = BACKSLASH /\ inner[k + 1] = QUOTE

\* C3: a line F = "x\"y" is accepted and binds x"y: the escaped quote stays
\* as one double quote and the backslash goes.
C3_EscapedQuoteIsLiteral ==
    (Loaded /\ EscapedQuoteForm(TheLine)) =>
        /\ result = "nil"
        /\ config.F = SelectSeq(EscapedInner(TheLine), LAMBDA c : c /= BACKSLASH)

----------------------------------------------------------------------------
(* C4 *)

\* the value of the line: the text after the first = up to the first # outside
\* quotes, blanks outside quotes trimmed, the quotes themselves taken out
ValueUpToComment(line) == RemoveQuotes(TrimUnquoted(RawValue(line)))

\* C4: a # starts a comment exactly when an even number of double quotes
\* stands before it; the value bound is the text after the first = up to the
\* first such #, trimmed outside quotes, and a # inside quotes is kept.
C4_CommentStartsAtUnquotedHash ==
    (/\ Loaded /\ KeyValueLineFor(TheLine, "F") /\ NoEscapedQuote(TheLine)
     /\ ValueUpToComment(TheLine) /= <<>>) =>
        /\ result = "nil"
        /\ config.F = ValueUpToComment(TheLine)

\* F = "#F" # F binds #F: the first # is kept, the second starts the comment
C4_Witness ==
    /\ Loaded /\ result = "nil"
    /\ TheLine = <<"F", " ", "=", " ", "\"", "#", "F", "\"", " ", "#", " ", "F">>
    /\ config.F = <<"#", "F">>

----------------------------------------------------------------------------
(* C5 *)

\* the line is F = ""
QuotedEmpty(line) ==
    /\ HasEquals(line) /\ RawKey(line) = <<"F">>
    /\ TrimSpace(Suffix(line, Index(line, EQUALS) + 1)) = <<QUOTE, QUOTE>>

\* the line is F = or F = # comment, without a quote
UnquotedEmpty(line) ==
    /\ ~Contains(line, QUOTE)
    /\ KeyValueLineFor(line, "F")
    /\ TrimSpace(RawValue(line)) = <<>>

\* C5: F = "" is accepted and binds the empty string, and a value that is
\* empty without quotes is an error.
C5_EmptyOnlyWhenQuoted ==
    /\ (Loaded /\ QuotedEmpty(TheLine)) => (result = "nil" /\ config.F = <<>>)
    /\ (Loaded /\ UnquotedEmpty(TheLine)) => (result = "error" /\ config = defaults)

\* the half of C5 the code keeps: an empty value without quotes is an error
C5_UnquotedEmptyIsError ==
    (Loaded /\ UnquotedEmpty(TheLine)) =>
        (result = "error" /\ errKind = "emptyValue" /\ config = defaults)

----------------------------------------------------------------------------
(* C6 *)

\* the character at position p of the line is part of the value: it is after
\* the first =, before the comment, no double quote, and either inside quotes
\* or not among the blanks at the two ends of the value
Kept(line, p) ==
    LET eq  == Index(line, EQUALS) + 1
        end == CommentStart(line) - 1
    IN  /\ eq < p /\ p <= end
        /\ line[p] /= QUOTE
        /\ \/ Quoted(line, p)
           \/ ~IsSpace(line[p])
           \/ /\ \E a \in (eq + 1)..(p - 1) : ~IsSpace(line[a])
              /\ \E b \in (p + 1)..end : ~IsSpace(line[b])

RECURSIVE KeptUpTo(_, _)
\* the kept characters among the first n of the line, in order
KeptUpTo(line, n) ==
    IF n = 0 THEN <<>>
    ELSE IF Kept(line, n) THEN Append(KeptUpTo(line, n - 1), line[n])
    ELSE KeptUpTo(line, n - 1)

KeptChars(line) == KeptUpTo(line, Len(line))

\* C6: the double quotes of a value are taken out wherever they stand, and the
\* text between them is kept as it is, blanks at its ends included.
C6_QuotesRemovedTextKept ==
    (/\ Loaded /\ KeyValueLineFor(TheLine, "F") /\ NoEscapedQuote(TheLine)
     /\ Contains(TheLine, QUOTE) /\ KeptChars(TheLine) /= <<>>) =>
        /\ result = "nil"
        /\ ~Contains(config.F, QUOTE)
        /\ config.F = KeptChars(TheLine)

\* F = " F " binds F with the blank on each side of it
C6_Witness ==
    /\ Loaded /\ result = "nil"
    /\ TheLine = <<"F", " ", "=", " ", "\"", " ", "F", " ", "\"">>
    /\ config.F = <<" ", "F", " ">>

----------------------------------------------------------------------------
(* C10 *)

\* C10: a line that is not blank and not a comment is an error when the text
\* before its first = is blank or holds a double quote.
C10_BadKeyIsError ==
    (/\ Loaded /\ ~BlankOrComment(TheLine) /\ HasEquals(TheLine)
     /\ (RawKey(TheLine) = <<>> \/ Contains(BeforeEquals(TheLine), QUOTE))) =>
        (result = "error" /\ config = defaults)

\* "F"=F is refused for the quotes in its key
C10_Witness ==
    /\ Loaded /\ result = "error" /\ errKind = "quoteInKey"
    /\ TheLine = <<"\"", "F", "\"", "=", "F">>
    /\ config = defaults

----------------------------------------------------------------------------
(* C11 *)

\* nothing but blanks is left of the line once its comment is taken off
BlankAfterComment(line) == TrimSpace(Uncommented(line)) = <<>>

\* C11: a line that is blank once its comment is removed changes no field and
\* is no error; a line whose rest is not blank and holds no = is an error.
C11_LineClassification ==
    /\ (Loaded /\ BlankAfterComment(TheLine)) =>
            (result = "nil" /\ config = defaults)
    /\ (Loaded /\ ~BlankAfterComment(TheLine) /\ ~HasEquals(Uncommented(TheLine))) =>
            (result = "error" /\ config = defaults)

\* a comment that holds = and double quotes is skipped
C11_Witness ==
    /\ Loaded /\ result = "nil" /\ config = defaults
    /\ TheLine = <<" ", "#", "\"", "F", "=", "\"">>

\* a line without = is refused
C11_WitnessNoEquals ==
    /\ Loaded /\ result = "error" /\ errKind = "noEquals"
    /\ TheLine = <<"F", " ", "F", " ", "#", "=">>

----------------------------------------------------------------------------
(* C12 *)

\* C12: an error returned for a failure on a line carries the name of the
\* file and the 1-based number of that line.
C12_LineErrorsCarryFileAndLine ==
    (Loaded /\ result = "error" /\ lineNr >= 1) =>
        {"filename", "lineNr"} \subseteq ErrorArgs(errKind)

----------------------------------------------------------------------------
(* C13 *)

RECURSIVE RunLines(_, _)
\* the struct after the scan loop has run on each of the lines, none failing
RunLines(cfg, lines) ==
    IF lines = <<>> THEN cfg
    ELSE RunLines(LineStep(cfg, Head(lines)).config, Tail(lines))

\* the struct as a file that ends before the line read last would leave it
BeforeLastLine == RunLines(defaults, Prefix(file, lineNr - 1))

\* LoadConfig stopped at the line read last
StoppedAtLine == Loaded /\ result \notin {"none", "nil"}

\* C13: when line k is the first to fail, LoadConfig returns an error, the
\* struct is as lines 1..k-1 left it, and no later line is read.
C13_FailFastNoRollback ==
    StoppedAtLine => (result = "error" /\ config = BeforeLastLine)

\* what the code keeps of C13: it stops at line k by an error or a panic, and
\* the struct is as lines 1..k-1 left it but for a nil list turned empty
C13_UpToPanicAndNil ==
    StoppedAtLine =>
        /\ result \in {"error", "panic"}
        /\ \A f \in FieldNames :
              IF FieldType[f].kind = "slice"
              THEN config[f].elems = BeforeLastLine[f].elems
              ELSE config[f] = BeforeLastLine[f]

----------------------------------------------------------------------------
(* C14 *)

\* a line read so far is a key=value line with the key f
KeyRead(f) ==
    \E i \in 1..lineNr :
        /\ ~BlankOrComment(file[i]) /\ HasEquals(file[i])
        /\ RawKey(file[i]) = <<f>>

\* C14: a field whose name is the key of no line read holds the value the
\* caller supplied, during and after every call, failed or not.
C14_FieldsWithoutKeyKeepDefaults ==
    \A f \in FieldNames : ~KeyRead(f) => config[f] = defaults[f]

\* a failed call that has set F and left the caller's list L as it was
C14_Witness ==
    /\ Loaded /\ result = "error" /\ lineNr = 3
    /\ KeyRead("F") /\ config.F /= defaults.F
    /\ ~KeyRead("L") /\ defaults.L.elems = <<<<"d">>>> /\ config.L = defaults.L
    /\ ~KeyRead("u") /\ config.u = <<"p">>

----------------------------------------------------------------------------
(* C15 *)

\* C15: once LoadConfig has opened the file, the file is closed when
\* LoadConfig is over, whichever way it ended.
C15_OpenedFileIsClosed ==
    (pc = "done" /\ handle /= "none") => handle = "closed"

\* the file is still open after every call that opened it
C15_NeverClosed ==
    (pc = "done" /\ destKind = "ptrStruct" /\ fileExists) => handle = "open"

----------------------------------------------------------------------------
(* C16 *)

\* C16: when the reader stopped because a read failed, not because the input
\* ended, LoadConfig does not return nil.
C16_ReadErrorIsReturned ==
    (pc = "done" /\ handle /= "none" /\ ioFails) => result /= "nil"

----------------------------------------------------------------------------
(* C17 *)

ConversionErrors == {"invalidBool", "invalidInt", "invalidUint", "unsupported"}

\* C17: a line whose value cannot be converted to the kind of its field
\* changes nothing in the struct: a nil list stays nil.
C17_FailedConversionChangesNothing ==
    [][(pc = "scan" /\ pc' = "done" /\ errKind' \in ConversionErrors) =>
            config' = config]_vars

\* a failed conversion leaves every scalar and the elements of every list as
\* they were; only whether a list is nil can change
C17_ValuesAndElementsKept ==
    [][(pc = "scan" /\ pc' = "done" /\ errKind' \in ConversionErrors) =>
            \A f \in FieldNames :
                IF FieldType[f].kind = "slice"
                THEN config'[f].elems = config[f].elems
                ELSE config'[f] = config[f]]_vars

----------------------------------------------------------------------------
(* C18 *)

\* the field and the value text of the one line `field=value`
IntField == TheLine[1]
ValueText == SubSeq(TheLine, 3, Len(TheLine))

\* the integer type a value of the field is converted to
NumType(f) == IF FieldType[f].kind = "slice" THEN FieldType[f].elem
              ELSE Type(FieldType[f].kind, FieldType[f].bits)

RECURSIVE Horner(_, _)
\* the number of a digit string, read from the left
Horner(acc, ds) ==
    IF ds = <<>> THEN acc ELSE Horner(10 * acc + DigitVal(Head(ds)), Tail(ds))

\* the digits of a text without its sign
Unsigned(text) == IF text /= <<>> /\ Head(text) \in {"+", "-"} THEN Tail(text) ELSE text

\* a text is a base-10 integer of a kind: digits, after one sign for a signed kind
IntegerText(text, kind) ==
    LET ds == IF kind = "int" THEN Unsigned(text) ELSE text
    IN  ds /= <<>> /\ \A k \in 1..Len(ds) : ds[k] \in Digits

Number(text) ==
    IF text /= <<>> /\ Head(text) = "-" THEN 0 - Horner(0, Unsigned(text))
    ELSE Horner(0, Unsigned(text))

InRange(t, n) ==
    IF t.kind = "int" THEN -(2^(t.bits - 1)) <= n /\ n <= 2^(t.bits - 1) - 1
    ELSE 0 <= n /\ n <= 2^t.bits - 1

Bindable(f, text) ==
    IntegerText(text, NumType(f).kind) /\ InRange(NumType(f), Number(text))

\* C18: a base-10 integer in the range of the field's width is bound to the
\* field (appended to a list of integers); any other text gives an error and
\* the field keeps its number (the list its elements): nothing is stored cut
\* to the width.
C18_IntegerBoundIffInRange ==
    Loaded =>
        IF Bindable(IntField, ValueText)
        THEN /\ result = "nil"
             /\ IF FieldType[IntField].kind = "slice"
                THEN config[IntField].elems =
                        Append(defaults[IntField].elems, Number(ValueText))
                ELSE config[IntField] = Number(ValueText)
        ELSE /\ result = "error"
             /\ IF FieldType[IntField].kind = "slice"
                THEN config[IntField].elems = defaults[IntField].elems
                ELSE config[IntField] = defaults[IntField]

\* the lowest int8 is bound
C18_Witness ==
    /\ Loaded /\ TheLine = <<"N", "=", "-", "1", "2", "8">>
    /\ result = "nil" /\ config.N = -128

\* the number after the highest uint8 is an error and the field keeps its number
C18_WitnessOutOfRange ==
    /\ Loaded /\ TheLine = <<"U", "=", "2", "5", "6">>
    /\ result = "error" /\ errKind = "invalidUint" /\ config.U = 3

\* an int8 out of range for the list is an error and the list keeps its element
C18_WitnessList ==
    /\ Loaded /\ TheLine = <<"K", "=", "1", "2", "8">>
    /\ result = "error" /\ errKind = "invalidInt" /\ config.K.elems = <<3>>

\* the highest int16 is bound
C18_WitnessWide ==
    /\ Loaded /\ TheLine = <<"W", "=", "3", "2", "7", "6", "7">>
    /\ result = "nil" /\ config.W = 32767

====
